---- MODULE Spec2Model ----
(***************************************************************************)
(* vite-plugin-virtual-html: the Base plugin object (src/html/Base.ts, the *)
(* current definition at lines 284-583) and the dev-server middleware of   *)
(* Serve (src/html/Serve.ts).                                              *)
(*                                                                         *)
(* JavaScript strings are TLA+ strings (sequences of characters); the     *)
(* String.prototype methods the code uses are defined below by what they   *)
(* do.  A value a function returns is a record: [kind |-> "null"],         *)
(* [kind |-> "string", val |-> s] or [kind |-> "throw", error |-> e].      *)
(***************************************************************************)
EXTENDS Integers, Sequences, FiniteSets, TLC

VARIABLES
    _pages,        \* Base._pages: page name -> page definition
    _indexPage,    \* Base._indexPage
    _globalData,   \* Base._globalData
    _globalRender, \* Base._globalRender
    _injectCode,   \* Base._injectCode: file name or "*" -> InjectCode
    root,          \* Base._config?.root ("undefined" when no config is set)
    _urlTransformer, \* Serve._urlTransformer
    files,         \* the disk: template path -> file content
    pc,            \* where the host is: "idle", "returned", or a middleware step
    call,          \* the operation in progress or just finished, with its arguments
    result,        \* what the operation returned
    logged,        \* number of this.logger(...) calls made by the operation
    rendered,      \* number of calls of the render function made by the operation
    mw             \* the middleware's locals, and its calls in order (events):
                   \* "_load", "_transform", "transformIndexHtml", "end" (res.end)
                   \* and "next" (next()); body is what res.end was given

vars == <<_pages, _indexPage, _globalData, _globalRender, _injectCode, root,
          _urlTransformer, files, pc, call, result, logged, rendered, mw>>

(***************************************************************************)
(* JavaScript values and String.prototype                                  *)
(***************************************************************************)
Null == [kind |-> "null"]
Undefined == [kind |-> "undefined"]
Str(s) == [kind |-> "string", val |-> s]
Throw(e) == [kind |-> "throw", error |-> e]

\* s.startsWith(p)
StartsWith(s, p) == Len(p) <= Len(s) /\ SubSeq(s, 1, Len(p)) = p

\* s.endsWith(p)
EndsWith(s, p) == Len(p) <= Len(s) /\ SubSeq(s, Len(s) - Len(p) + 1, Len(s)) = p

\* s.indexOf(p), 1-based; 0 where JavaScript gives -1
IndexOf(s, p) ==
    LET at == {i \in 1..(Len(s) - Len(p) + 1) : SubSeq(s, i, i + Len(p) - 1) = p}
    IN  IF at = {} THEN 0 ELSE CHOOSE i \in at : \A j \in at : i <= j

\* the text before / after the match of p found at index i
Before(s, i) == SubSeq(s, 1, i - 1)
After(s, p, i) == SubSeq(s, i + Len(p), Len(s))

\* GetSubstitution (ECMA-262) for a string pattern, which has no captures:
\* in the replacement text $$ is a dollar, $& the match, $` the text before
\* the match, $' the text after it; every other character stands for itself.
RECURSIVE GetSubstitution(_, _, _, _)
GetSubstitution(rep, matched, before, after) ==
    IF Len(rep) = 0 THEN ""
    ELSE IF Len(rep) >= 2 /\ SubSeq(rep, 1, 1) = "$"
              /\ SubSeq(rep, 2, 2) \in {"$", "&", "`", "'"}
         THEN (CASE SubSeq(rep, 2, 2) = "$" -> "$"
                 [] SubSeq(rep, 2, 2) = "&" -> matched
                 [] SubSeq(rep, 2, 2) = "`" -> before
                 [] SubSeq(rep, 2, 2) = "'" -> after)
              \o GetSubstitution(SubSeq(rep, 3, Len(rep)), matched, before, after)
         ELSE SubSeq(rep, 1, 1)
              \o GetSubstitution(SubSeq(rep, 2, Len(rep)), matched, before, after)

\* s.replace(p, rep) with a string pattern: the first occurrence only
Replace(s, p, rep) ==
    LET i == IndexOf(s, p)
    IN  IF i = 0 THEN s
        ELSE Before(s, i)
             \o GetSubstitution(rep, p, Before(s, i), After(s, p, i))
             \o After(s, p, i)

\* s.split(sep), for a one-character separator
RECURSIVE Split(_, _)
Split(s, sep) ==
    LET i == IndexOf(s, sep)
    IN  IF i = 0 THEN <<s>>
        ELSE <<Before(s, i)>> \o Split(After(s, sep, i), sep)

(***************************************************************************)
(* Base (src/html/Base.ts)                                                 *)
(***************************************************************************)
\* Base.cwd = normalizePath(process.cwd()); one working directory stands for all
cwd == "/w"

VIRTUAL_HTML_CONTENT ==
    "\n<!DOCTYPE html>\n<html lang=\"en\">\n<head>\n"
    \o "    <meta charset=\"UTF-8\">\n"
    \o "    <title>#TITLE#</title>\n"
    \o "    <script src=\"#ENTRY#\" type=\"module\"></script>\n"
    \o "</head>\n<body>\n#BODY#\n</body>\n</html>\n"

DEFAULT_INJECTCODE_ALL == "*"

\* utils.normalizePath: path.posix.normalize on a path without "." or ".."
\* segments collapses every run of slashes into one slash
RECURSIVE normalizePath(_)
normalizePath(p) ==
    IF IndexOf(p, "//") = 0 THEN p
    ELSE normalizePath(Before(p, IndexOf(p, "//")) \o After(p, "/", IndexOf(p, "//")))

\* createFilter(/\.html|\/$/): the regular expression tested on the id. The
\* alternation binds weaker than the anchor: ".html" anywhere, or a final "/".
_filter(id) == IndexOf(id, ".html") > 0 \/ EndsWith(id, "/")

\* obj[key] on a table; a missing key reads as undefined
Lookup(table, key) == IF key \in DOMAIN table THEN table[key] ELSE Undefined

\* what `a || b` tests: of the page definitions only the empty string is falsy
Truthy(v) == v.kind # "undefined" /\ ~(v.kind = "string" /\ v.val = "")

addTrailingSlash(path) ==
    LET _path == normalizePath(Replace(path, cwd, ""))
    IN  IF EndsWith(_path, "/") THEN _path ELSE _path \o "/"

getHtmlName(id, rootOpt) ==
    LET _root == Replace(IF rootOpt.kind = "string" THEN rootOpt.val ELSE "", cwd, "")
        _id == Replace(id, cwd, "")
        res == Replace(Replace(_id, ".html", ""),
                       IF _root # "" THEN addTrailingSlash(_root) ELSE "", "")
    IN  IF StartsWith(res, "/") THEN SubSeq(res, 2, Len(res)) ELSE res

\* the keys _load reads from the page table, in the order it tries them
maybeIndexName1(newId) == Replace(newId \o "/", "//", "/")
maybeIndexName2(newId) == Replace(newId \o "/index", "//", "/")
maybeIndexName3(newId) == Replace(Replace(newId, "index", ""), "//", "/")
LookupKeys(newId) ==
    <<newId, maybeIndexName1(newId), maybeIndexName2(newId), maybeIndexName3(newId)>>

\* pages[k1] || pages[k2] || pages[k3] || pages[k4]
RECURSIVE FirstTruthy(_, _, _)
FirstTruthy(table, keys, i) ==
    IF i = Len(keys) THEN Lookup(table, keys[i])
    ELSE IF Truthy(Lookup(table, keys[i])) THEN Lookup(table, keys[i])
         ELSE FirstTruthy(table, keys, i + 1)

resolvePage(table, id, rootOpt) == FirstTruthy(table, LookupKeys(getHtmlName(id, rootOpt)), 1)

generateUrl(url) ==
    IF url.kind # "string" \/ url.val = "" THEN "/"
    ELSE IF IndexOf(url.val, "?") > 1 THEN Split(url.val, "?")[1]
         ELSE url.val

\* defaultRender: ejs, when installed, renders the template; the templates of
\* this model hold no ejs tag, so with or without ejs the template comes back
defaultRender(template, data) == template

\* the render functions a configuration may supply: each marks its output and
\* prints data.k when the data has it
DataText(data) == IF "k" \in DOMAIN data THEN data["k"] ELSE ""
Render(render, code, data) ==
    CASE render = "renderPage" -> "P:" \o code \o DataText(data)
      [] render = "renderGlobal" -> "G:" \o code \o DataText(data)
      [] OTHER -> defaultRender(code, data)

\* the directories of the disk: the working directory always exists
Dirs == {cwd}

\* fs.existsSync(path)
existsSync(disk, path) == path \in DOMAIN disk \/ path \in Dirs

\* fsp.readFile(templatePath).toString(): rejects on a directory (EISDIR) and
\* on a missing file (ENOENT)
readTemplate(disk, templatePath) ==
    IF templatePath \in DOMAIN disk THEN Str(disk[templatePath])
    ELSE IF templatePath \in Dirs THEN Throw("EISDIR") ELSE Throw("ENOENT")

\* readTemplate(templatePath).then(code => render(code, data))
renderTemplate(disk, templatePath, render, data) ==
    LET code == readTemplate(disk, templatePath)
    IN  IF code.kind = "throw" THEN [ret |-> code, logged |-> 0, rendered |-> 0]
        ELSE [ret |-> Str(Render(render, code.val, data)), logged |-> 0, rendered |-> 1]

\* path.resolve(this.cwd, `.${template}`): "." is the working directory itself,
\* "./dir/file" a path below it
resolveTemplatePath(template) == IF template = "" THEN cwd ELSE cwd \o template

\* readHtml without the existence test: the read itself meets the missing file
readHtml_NoExistsCheck(disk, page) ==
    renderTemplate(disk, resolveTemplatePath(page.template),
                   IF page.render = "undefined" THEN "defaultRender" ELSE page.render,
                   page.data)

readHtml(disk, page) ==
    LET render == IF page.render = "undefined" THEN "defaultRender" ELSE page.render
        templatePath == resolveTemplatePath(page.template)
    IN  IF ~existsSync(disk, templatePath)
        THEN [ret |-> Str(""), logged |-> 1, rendered |-> 0]
        ELSE renderTemplate(disk, templatePath, render, page.data)

\* { ...a, ...b }
Spread(a, b) ==
    [k \in DOMAIN a \cup DOMAIN b |-> IF k \in DOMAIN b THEN b[k] ELSE a[k]]

\* a ?? b
Coalesce(a, b) == IF a = "undefined" THEN b ELSE a

\* generatePageOptions with the spread the other way round: globalData wins
generatePageOptions_GlobalWins(page, globalData, globalRender) ==
    IF page.kind = "string"
    THEN [page |-> [template |-> page.val, data |-> globalData, render |-> globalRender],
          globalData |-> globalData]
    ELSE [page |-> [template |-> page.template,
                    data |-> Spread(page.data, globalData),
                    render |-> Coalesce(Coalesce(page.render, globalRender), "defaultRender")],
          globalData |-> globalData]

\* returns the PageObject, and globalData as the call leaves it
generatePageOptions(page, globalData, globalRender) ==
    IF page.kind = "string"
    THEN [page |-> [template |-> page.val,
                    data |-> Spread(globalData, <<>>),
                    render |-> globalRender],
          globalData |-> globalData]
    ELSE [page |-> [template |-> page.template,
                    data |-> Spread(globalData, page.data),
                    render |-> Coalesce(Coalesce(page.render, globalRender), "defaultRender")],
          globalData |-> globalData]

\* generateInjectCode whose "before" case starts with the replacement itself
generateInjectCode_NoLeadingBreak(inject, code) ==
    IF inject.pos = "after"
    THEN Replace(code, inject.find, inject.find \o "\n" \o inject.replacement)
    ELSE IF inject.pos = "before"
         THEN Replace(code, inject.find, inject.replacement \o "\n" \o inject.find)
         ELSE code

generateInjectCode(inject, code) ==
    IF inject.pos = "after"
    THEN Replace(code, inject.find, inject.find \o "\n" \o inject.replacement)
    ELSE IF inject.pos = "before"
         THEN Replace(code, inject.find, "\n" \o inject.replacement \o "\n" \o inject.find)
         ELSE code

\* generateVirtualPage without the default of title: undefined is printed
generateVirtualPage_NoTitleDefault(vPages) ==
    LET entry == vPages.entry
        title == IF vPages.title.kind = "string" THEN vPages.title.val ELSE "undefined"
        body == IF vPages.body.kind = "string" THEN vPages.body.val
                ELSE "<div id=\"app\"></div>"
    IN  Replace(Replace(Replace(VIRTUAL_HTML_CONTENT, "#ENTRY#", entry),
                        "#TITLE#", title),
                "#BODY#", body)

generateVirtualPage(vPages) ==
    LET entry == vPages.entry
        title == IF vPages.title.kind = "string" THEN vPages.title.val ELSE ""
        body == IF vPages.body.kind = "string" THEN vPages.body.val
                ELSE "<div id=\"app\"></div>"
    IN  Replace(Replace(Replace(VIRTUAL_HTML_CONTENT, "#ENTRY#", entry),
                        "#TITLE#", title),
                "#BODY#", body)

_load(table, disk, globalData, globalRender, rootOpt, id) ==
    IF _filter(id)
    THEN LET pageOption == resolvePage(table, id, rootOpt)
         IN  IF pageOption.kind \in {"string", "template"}
             THEN readHtml(disk, generatePageOptions(pageOption, globalData, globalRender).page)
             ELSE IF pageOption.kind = "virtual"
                  THEN [ret |-> Str(generateVirtualPage(pageOption)),
                        logged |-> 0, rendered |-> 0]
                  ELSE [ret |-> Null, logged |-> 0, rendered |-> 0]
    ELSE [ret |-> Null, logged |-> 0, rendered |-> 0]

_transform(injectCode, code, id) ==
    IF _filter(id)
    THEN LET ids == Split(id, "/")
             key == ids[Len(ids)]
             code1 == IF DEFAULT_INJECTCODE_ALL \in DOMAIN injectCode
                      THEN generateInjectCode(injectCode[DEFAULT_INJECTCODE_ALL], code)
                      ELSE code
             code2 == IF key \in DOMAIN injectCode
                      THEN generateInjectCode(injectCode[key], code)
                      ELSE code1
         IN  Str(code2)
    ELSE Null

(***************************************************************************)
(* Serve (src/html/Serve.ts): what the middleware calls besides Base       *)
(***************************************************************************)
HexDigits == {"0", "1", "2", "3", "4", "5", "6", "7", "8", "9",
              "a", "b", "c", "d", "e", "f", "A", "B", "C", "D", "E", "F"}

\* decodeURI on ASCII escapes: %20 and %61 decode, the escape of a reserved
\* character (%2F) stays as written, and a "%" that two hexadecimal digits do
\* not follow throws URIError
RECURSIVE decodeURI(_)
decodeURI(s) ==
    IF Len(s) = 0 THEN Str("")
    ELSE IF SubSeq(s, 1, 1) # "%"
         THEN LET rest == decodeURI(SubSeq(s, 2, Len(s)))
              IN  IF rest.kind = "throw" THEN rest ELSE Str(SubSeq(s, 1, 1) \o rest.val)
         ELSE IF Len(s) < 3 \/ SubSeq(s, 2, 2) \notin HexDigits
                            \/ SubSeq(s, 3, 3) \notin HexDigits
              THEN Throw("URIError")
              ELSE LET rest == decodeURI(SubSeq(s, 4, Len(s)))
                       esc == SubSeq(s, 1, 3)
                       char == CASE esc = "%20" -> " "
                                 [] esc = "%61" -> "a"
                                 [] OTHER -> esc
                   IN  IF rest.kind = "throw" THEN rest ELSE Str(char \o rest.val)

\* the urlTransformer option: absent, or a function that serves extensionless
\* urls from the page of the same name
urlTransformer(fn, url) ==
    IF fn = "appendHtml" /\ ~EndsWith(url, "/") /\ IndexOf(url, ".") = 0
    THEN url \o ".html"
    ELSE url

\* server.transformIndexHtml(url, html): the host's post-processing, which
\* adds its client script to the document
transformIndexHtml(url, html) == "<script src=\"/@vite/client\"></script>" \o html

\* the middleware's urls that are not passed on at once
isHtmlUrl(url) == EndsWith(url, ".html") \/ EndsWith(url, "/") \/ url = "/"

(***************************************************************************)
(* Bounds and the inputs drawn within them                                 *)
(***************************************************************************)
MaxPages == 2   \* entries of a page table
MaxKeys == 2    \* keys of a data mapping

TemplateText == "A\nB"
Templates == {"/t.html", "/u.html"}
Disks ==
    {[f \in S |-> TemplateText] : S \in SUBSET {resolveTemplatePath(t) : t \in Templates}}

DataKeys == {"k" \o ToString(i) : i \in 1..MaxKeys}
DataMaps(v) == {[k \in S |-> v] : S \in SUBSET DataKeys}

VirtualPage(entry, title, body) ==
    [kind |-> "virtual", entry |-> entry, title |-> title, body |-> body]
TemplatePage(template, data, render) ==
    [kind |-> "template", template |-> template, data |-> data, render |-> render]

PageDefs ==
    {Str("/t.html"), Str(""),
     TemplatePage("/u.html", [k \in {"k1"} |-> "page"], "renderPage"),
     VirtualPage("/src/main.ts", Str("App"), Undefined)}
PageKeys == {"a", "a/", "a/index", "index"}
PageTables ==
    UNION {[K -> PageDefs] : K \in {S \in SUBSET PageKeys : Cardinality(S) <= MaxPages}}

Roots == {Undefined, Str(cwd \o "/r")}

\* ids the host hands to the load and transform hooks: urls and absolute paths
Leaves == {"", "a", "a.html", "index.html", "b.html", "a.html.js", "a.html.html"}
Folders == {"", "a", "index", "r"}
Ids ==
    {"/" \o l : l \in Leaves}
    \cup {"/" \o d \o "/" \o l : d \in Folders, l \in Leaves}
    \cup {cwd \o "/a.html", cwd \o "/r/a.html", cwd \o "/r/a/"}

Positions == {"before", "after", "none"}
InjectCode(pos, find, replacement) ==
    [pos |-> pos, find |-> find, replacement |-> replacement]
Rules ==
    {InjectCode(pos, find, rep) : pos \in Positions, find \in {"A", "B", "Z", ""},
                                  rep \in {"X", "Y", "$&", "$$"}}
Codes == {"A\nB", "<p>A</p><p>A</p>B", "B", ""}
TableRules == {InjectCode("after", "A", "X"), InjectCode("before", "B", "Y"),
               InjectCode("none", "A", "X")}
InjectTables ==
    UNION {[K -> TableRules] : K \in SUBSET {DEFAULT_INJECTCODE_ALL, "a.html"}}

Texts == {"/src/main.ts", "App", "<div>#BODY#</div>", "#TITLE#", "#ENTRY#", "$&", ""}
VirtualPages ==
    {VirtualPage(entry, title, body) :
        entry \in Texts,
        title \in {Str(t) : t \in Texts} \cup {Undefined},
        body \in {Str(t) : t \in Texts} \cup {Undefined}}

Renders == {"undefined", "renderPage"}
GlobalRenders == {"undefined", "renderGlobal", "defaultRender"}
OptionPages ==
    {Str(t) : t \in Templates}
    \cup {TemplatePage(t, d, r) : t \in Templates, d \in DataMaps("page"), r \in Renders}

OriginalUrls == {Undefined, Str("/"), Str("/a/"), Str("/a.html"), Str("/b")}
RequestUrls ==
    {Str(u) : u \in {"/", "/index.html", "/a.html", "/a/", "/a", "/a.html?x=1",
                     "/missing.html", "/b.js", "/%61.html", "/a%20b.html", "/%",
                     "//a.html"}}
ServePages ==
    {[k \in {"a"} |-> Str("/t.html")],
     [k \in {"index", "a/"} |-> IF k = "index" THEN Str("/u.html")
                                ELSE VirtualPage("/src/main.ts", Undefined, Undefined)],
     [k \in {"a"} |-> Str("")]}

(***************************************************************************)
(* The state machine: a plugin object is constructed, and the host calls   *)
(* its hooks or sends its middleware a request, one at a time              *)
(***************************************************************************)
NoCall == [op |-> "none"]
MwIdle == [url |-> "", loadResult |-> Undefined, htmlCode |-> "",
           transformResult |-> Undefined, events |-> <<>>, body |-> Undefined]

\* the state the constructor leaves, whatever the options were
Constructed ==
    /\ pc = "idle"
    /\ call = NoCall
    /\ result = Undefined
    /\ logged = 0
    /\ rendered = 0
    /\ mw = MwIdle

config == <<_pages, _indexPage, _globalData, _globalRender, _injectCode, root,
            _urlTransformer, files>>

\* the host calls the load hook
Load ==
    /\ pc = "idle"
    /\ \E id \in Ids :
          \E r \in {_load(_pages, files, _globalData, _globalRender, root, id)} :
              /\ call' = [op |-> "_load", id |-> id,
                          keys |-> IF _filter(id) THEN LookupKeys(getHtmlName(id, root))
                                   ELSE <<>>,
                          page |-> IF _filter(id) THEN resolvePage(_pages, id, root)
                                   ELSE Undefined]
              /\ result' = r.ret
              /\ logged' = r.logged
              /\ rendered' = r.rendered
    /\ pc' = "returned"
    /\ UNCHANGED <<config, mw>>

\* the host calls the transform hook
Transform ==
    /\ pc = "idle"
    /\ \E code \in Codes, id \in Ids :
          /\ call' = [op |-> "_transform", id |-> id, code |-> code]
          /\ result' = _transform(_injectCode, code, id)
    /\ pc' = "returned"
    /\ UNCHANGED <<config, logged, rendered, mw>>

GenerateInjectCode ==
    /\ pc = "idle"
    /\ \E inject \in Rules, code \in Codes :
          /\ call' = [op |-> "generateInjectCode", inject |-> inject, code |-> code]
          /\ result' = Str(generateInjectCode(inject, code))
    /\ pc' = "returned"
    /\ UNCHANGED <<config, logged, rendered, mw>>

GenerateVirtualPage ==
    /\ pc = "idle"
    /\ \E vPages \in VirtualPages :
          /\ call' = [op |-> "generateVirtualPage", vPages |-> vPages]
          /\ result' = Str(generateVirtualPage(vPages))
    /\ pc' = "returned"
    /\ UNCHANGED <<config, logged, rendered, mw>>

GeneratePageOptions ==
    /\ pc = "idle"
    /\ \E page \in OptionPages, globalData \in DataMaps("global"),
          globalRender \in GlobalRenders :
          \E r \in {generatePageOptions(page, globalData, globalRender)} :
              /\ call' = [op |-> "generatePageOptions", page |-> page,
                          globalData |-> globalData, globalRender |-> globalRender,
                          globalDataAfter |-> r.globalData]
              /\ result' = r.page
    /\ pc' = "returned"
    /\ UNCHANGED <<config, logged, rendered, mw>>

\* the call is over; the host may make the next one
Return ==
    /\ pc \in {"returned", "rejected"}
    /\ pc' = "idle"
    /\ call' = NoCall
    /\ result' = Undefined
    /\ logged' = 0
    /\ rendered' = 0
    /\ mw' = MwIdle
    /\ UNCHANGED config

(***************************************************************************)
(* The catch-all middleware, one action per stretch between two awaits     *)
(***************************************************************************)
\* the url the middleware works on, before the index page is substituted:
\* a string, or the URIError decodeURI throws
effectiveUrl(fn, originalUrl, reqUrl) ==
    LET chosen == IF originalUrl.kind = "string" /\ EndsWith(originalUrl.val, "/")
                  THEN originalUrl ELSE reqUrl
        decoded == decodeURI(generateUrl(chosen))
    IN  IF decoded.kind = "throw" THEN decoded
        ELSE IF fn # "undefined" THEN Str(urlTransformer(fn, decoded.val))
             ELSE decoded

\* `/` and `/index.html` ask for the index page
indexUrl(indexPage, url) ==
    IF url = "/" \/ url = "/index.html" THEN "/" \o indexPage \o ".html" ELSE url

\* a request arrives: the handler runs up to its first await, the call of _load
MwReceive ==
    /\ pc = "idle"
    /\ \E originalUrl \in OriginalUrls, reqUrl \in RequestUrls :
          \E url \in {effectiveUrl(_urlTransformer, originalUrl, reqUrl)} :
              /\ call' = [op |-> "middleware", originalUrl |-> originalUrl,
                          reqUrl |-> reqUrl]
              /\ IF url.kind = "throw"
                 THEN /\ pc' = "rejected"
                      /\ result' = url
                      /\ mw' = mw
                 ELSE IF ~isHtmlUrl(url.val)
                      THEN /\ pc' = "returned"
                           /\ result' = Undefined
                           /\ mw' = [mw EXCEPT !.url = url.val, !.events = <<"next">>]
                      ELSE /\ pc' = "mw_load"
                           /\ result' = Undefined
                           /\ mw' = [mw EXCEPT !.url = indexUrl(_indexPage, url.val),
                                               !.events = <<"_load">>]
    /\ UNCHANGED <<config, logged, rendered>>

\* _load settles: a rejection rejects the handler, null becomes '', and
\* _transform is called
MwLoaded ==
    /\ pc = "mw_load"
    /\ \E r \in {_load(_pages, files, _globalData, _globalRender, root,
                       normalizePath(mw.url))} :
           /\ logged' = r.logged
           /\ rendered' = r.rendered
           /\ IF r.ret.kind = "throw"
              THEN /\ pc' = "rejected"
                   /\ result' = r.ret
                   /\ mw' = mw
              ELSE /\ pc' = "mw_transform"
                   /\ result' = result
                   /\ mw' = [mw EXCEPT
                               !.loadResult = r.ret,
                               !.htmlCode = IF r.ret.kind = "null" THEN "" ELSE r.ret.val,
                               !.events = Append(@, "_transform")]
    /\ UNCHANGED <<config, call>>

\* _transform settles: null passes the request on, anything else goes to the
\* host's transformIndexHtml
MwTransformed ==
    /\ pc = "mw_transform"
    /\ \E transformResult \in {_transform(_injectCode, mw.htmlCode, mw.url)} :
           IF transformResult = Null
           THEN /\ pc' = "returned"
                /\ mw' = [mw EXCEPT !.transformResult = transformResult,
                                    !.events = Append(@, "next")]
           ELSE /\ pc' = "mw_respond"
                /\ mw' = [mw EXCEPT !.transformResult = transformResult,
                                    !.events = Append(@, "transformIndexHtml")]
    /\ UNCHANGED <<config, call, result, logged, rendered>>

\* transformIndexHtml settles: the response is ended with its result, and
\* next() is called all the same
MwRespond ==
    /\ pc = "mw_respond"
    /\ pc' = "returned"
    /\ mw' = [mw EXCEPT !.body = Str(transformIndexHtml(mw.url, mw.transformResult.val)),
                        !.events = @ \o <<"end", "next">>]
    /\ UNCHANGED <<config, call, result, logged, rendered>>

(***************************************************************************)
(* Specifications                                                          *)
(***************************************************************************)
\* the load hook over the page tables, disks and roots
InitLoad ==
    /\ _pages \in PageTables
    /\ files \in Disks
    /\ root \in Roots
    /\ _indexPage = "index"
    /\ _globalData = [k \in {"k1"} |-> "global"]
    /\ _globalRender = "renderGlobal"
    /\ _injectCode = <<>>
    /\ _urlTransformer = "undefined"
    /\ Constructed

NextLoad == Load \/ Return

SpecLoad == InitLoad /\ [][NextLoad]_vars

\* the load and transform hooks over the injection tables
InitHooks ==
    /\ _pages = [k \in {"a", "a.js"} |-> Str("/t.html")]
    /\ files \in {d \in Disks : resolveTemplatePath("/t.html") \in DOMAIN d}
    /\ root = Undefined
    /\ _indexPage = "index"
    /\ _globalData = <<>>
    /\ _globalRender = "defaultRender"
    /\ _injectCode \in InjectTables
    /\ _urlTransformer = "undefined"
    /\ Constructed

NextHooks == Load \/ Transform \/ Return

SpecHooks == InitHooks /\ [][NextHooks]_vars

\* the methods that read nothing of the object, called with arguments of all shapes
InitMethods ==
    /\ _pages = <<>>
    /\ files = <<>>
    /\ root = Undefined
    /\ _indexPage = "index"
    /\ _globalData = <<>>
    /\ _globalRender = "defaultRender"
    /\ _injectCode = <<>>
    /\ _urlTransformer = "undefined"
    /\ Constructed

NextMethods == GenerateInjectCode \/ GenerateVirtualPage \/ GeneratePageOptions \/ Return

SpecMethods == InitMethods /\ [][NextMethods]_vars

\* the dev server: requests through the middleware
Init ==
    /\ _pages \in ServePages
    /\ files \in {<<>>, [f \in {resolveTemplatePath(t) : t \in Templates} |-> TemplateText]}
    /\ root = Undefined
    /\ _indexPage \in {"index", "a"}
    /\ _globalData = <<>>
    /\ _globalRender = "defaultRender"
    /\ _injectCode \in {t \in InjectTables : \A k \in DOMAIN t : t[k].pos = "after"}
    /\ _urlTransformer \in {"undefined", "appendHtml"}
    /\ Constructed

Next == MwReceive \/ MwLoaded \/ MwTransformed \/ MwRespond \/ Return

Spec == Init /\ [][Next]_vars

(***************************************************************************)
(* Claims                                                                  *)
(***************************************************************************)
LoadReturned == pc = "returned" /\ call.op = "_load"
TransformReturned == pc = "returned" /\ call.op = "_transform"
MiddlewareSettled == pc \in {"returned", "rejected"} /\ call.op = "middleware"
EndsHtmlOrSlash(id) == EndsWith(id, ".html") \/ EndsWith(id, "/")
Occurrences(events, e) == Cardinality({i \in DOMAIN events : events[i] = e})

\* a page table of the usual kind: no definition is the empty string
NoEmptyPage == \A k \in DOMAIN _pages : Truthy(_pages[k])

\* C1: for every page name n of the page table, _load resolves "/n.html",
\* "/n/" and "/n/index.html" to the definition stored under n (stated here
\* for the tables without an empty definition).
C1_SamePageForSlashAndIndex ==
    (LoadReturned /\ NoEmptyPage) =>
        \A n \in DOMAIN _pages :
            call.id \in {"/" \o n \o ".html", "/" \o n \o "/", "/" \o n \o "/index.html"}
                => call.page = _pages[n]

\* C2: when both the "*" rule and the rule of the file name are configured,
\* _transform returns filenameRule(wildcardRule(code)).
C2_RulesChained ==
    (/\ TransformReturned
     /\ _filter(call.id)
     /\ DEFAULT_INJECTCODE_ALL \in DOMAIN _injectCode
     /\ Split(call.id, "/")[Len(Split(call.id, "/"))] \in DOMAIN _injectCode)
    => result = Str(generateInjectCode(
                        _injectCode[Split(call.id, "/")[Len(Split(call.id, "/"))]],
                        generateInjectCode(_injectCode[DEFAULT_INJECTCODE_ALL], call.code)))

\* C3: a request whose url ends in ".html" or "/" and resolves to no page
\* (_load returns null) is passed through: next() is called and the
\* middleware does not end the response (stated here for the tables without
\* an empty definition).
C3_MissingPagePassesThrough ==
    (MiddlewareSettled /\ pc = "returned" /\ EndsHtmlOrSlash(mw.url)
        /\ NoEmptyPage /\ mw.loadResult = Null)
    => (Occurrences(mw.events, "next") = 1 /\ Occurrences(mw.events, "end") = 0)

\* C4: the filter accepts an id if and only if it ends with ".html" or with
\* "/"; for every other id _load and _transform return null.
C4_FilterIsEndsWith ==
    (LoadReturned \/ TransformReturned)
    => /\ _filter(call.id) <=> EndsHtmlOrSlash(call.id)
       /\ ~EndsHtmlOrSlash(call.id) => result = Null

\* the code around the first occurrence of find, with `inserted` in its place
AroundFirst(code, find, inserted) ==
    Before(code, IndexOf(code, find)) \o inserted \o After(code, find, IndexOf(code, find))

HasDollar(s) == IndexOf(s, "$") > 0

Boilerplate(title, entry, body) ==
    "\n<!DOCTYPE html>\n<html lang=\"en\">\n<head>\n    <meta charset=\"UTF-8\">\n    <title>"
    \o title \o "</title>\n    <script src=\""
    \o entry \o "\" type=\"module\"></script>\n</head>\n<body>\n"
    \o body \o "\n</body>\n</html>\n"

Expected(vPages) ==
    Boilerplate(IF vPages.title.kind = "string" THEN vPages.title.val ELSE "",
                vPages.entry,
                IF vPages.body.kind = "string" THEN vPages.body.val
                ELSE "<div id=\"app\"></div>")

OptText(v) == IF v.kind = "string" THEN v.val ELSE ""
NoDollar(vPages) ==
    \A v \in {vPages.entry, OptText(vPages.title), OptText(vPages.body)} : ~HasDollar(v)

\* C6 as written: for all values of entry, title and body, also those that
\* hold a placeholder token, generateVirtualPage returns the boilerplate with
\* its own #TITLE#, #ENTRY# and #BODY# replaced by title, entry and body
\* (stated here for the values without "$").
C6_VirtualPageForAllValues ==
    (pc = "returned" /\ call.op = "generateVirtualPage" /\ NoDollar(call.vPages))
    => result.val = Expected(call.vPages)

\* C6 amended: the same, for values without "$" and for entry and title that
\* do not contain "#BODY#"; body, and "#TITLE#" or "#ENTRY#" in any value, are
\* free.
C6_VirtualPageSubstitution ==
    (/\ pc = "returned"
     /\ call.op = "generateVirtualPage"
     /\ NoDollar(call.vPages)
     /\ IndexOf(call.vPages.entry, "#BODY#") = 0
     /\ IndexOf(OptText(call.vPages.title), "#BODY#") = 0)
    => result.val = Expected(call.vPages)

C6_Witness ==
    /\ pc = "returned"
    /\ call.op = "generateVirtualPage"
    /\ call.vPages = VirtualPage("#TITLE#", Undefined, Str("<div>#BODY#</div>"))
    /\ result.val = Expected(call.vPages)

\* the template of a template-based page definition
TemplateOf(page) == IF page.kind = "string" THEN page.val ELSE page.template
Absent(path) == path \notin DOMAIN files /\ path \notin Dirs
MissingTemplate ==
    /\ LoadReturned
    /\ call.page.kind \in {"string", "template"}
    /\ Absent(resolveTemplatePath(TemplateOf(call.page)))

\* C7: when the resolved page is template-based and its template file is not
\* on the disk, _load returns the empty string, does not throw, logs exactly
\* one warning and does not call the render function.
C7_MissingTemplateIsEmpty ==
    MissingTemplate => (result = Str("") /\ logged = 1 /\ rendered = 0)

C7_Witness == MissingTemplate /\ call.page.kind = "template" /\ logged = 1

\* C8: generatePageOptions wraps a string as {template, a copy of globalData,
\* globalRender}; for a descriptor the data is globalData overlaid with the
\* descriptor's data (the descriptor wins, keys of globalData alone are kept)
\* and the render is the descriptor's, else globalRender, else the default
\* renderer; globalData is left as it was.
C8_PageOptionsMerged ==
    (pc = "returned" /\ call.op = "generatePageOptions")
    => /\ call.globalDataAfter = call.globalData
       /\ IF call.page.kind = "string"
          THEN /\ result.template = call.page.val
               /\ result.data = call.globalData
               /\ result.render = call.globalRender
          ELSE /\ result.template = call.page.template
               /\ DOMAIN result.data = DOMAIN call.globalData \cup DOMAIN call.page.data
               /\ \A k \in DOMAIN call.page.data : result.data[k] = call.page.data[k]
               /\ \A k \in DOMAIN call.globalData \ DOMAIN call.page.data :
                      result.data[k] = call.globalData[k]
               /\ result.render =
                      IF call.page.render # "undefined" THEN call.page.render
                      ELSE IF call.globalRender # "undefined" THEN call.globalRender
                           ELSE "defaultRender"

C8_Witness ==
    /\ pc = "returned"
    /\ call.op = "generatePageOptions"
    /\ call.page.kind = "template"
    /\ DOMAIN call.page.data \cap DOMAIN call.globalData # {}
    /\ DOMAIN call.globalData \ DOMAIN call.page.data # {}
    /\ call.page.render = "undefined"
    /\ call.globalRender = "undefined"
    /\ result.render = "defaultRender"

\* C9: every key _load looks up in the page table has no leading slash and no
\* ".html" suffix (stated here for the ids that end in ".html" and hold no
\* doubled slash).
C9_LookupKeysNormalized ==
    (LoadReturned /\ EndsWith(call.id, ".html") /\ IndexOf(call.id, "//") = 0) =>
        \A i \in DOMAIN call.keys :
            ~StartsWith(call.keys[i], "/") /\ ~EndsWith(call.keys[i], ".html")

\* C10: every request leads to exactly one call of next() and at most one
\* res.end; an ended response was given the host's transformIndexHtml result
\* before next() was called; a url that is not "/" and ends neither in "/" nor
\* in ".html" gets next() without _load, _transform or res.end (stated here
\* for the tables without an empty definition).
C10_OneNextPerRequest ==
    (MiddlewareSettled /\ NoEmptyPage) =>
        /\ Occurrences(mw.events, "next") = 1
        /\ Occurrences(mw.events, "end") <= 1
        /\ Occurrences(mw.events, "end") = 1 =>
              /\ mw.body = Str(transformIndexHtml(mw.url, mw.transformResult.val))
              /\ \E i, j \in DOMAIN mw.events :
                    i < j /\ mw.events[i] = "end" /\ mw.events[j] = "next"
        /\ ~isHtmlUrl(mw.url) => mw.events = <<"next">>

====
